---- MODULE Spec2Model ----
(***************************************************************************)
(* Model of the health-metric synchronization engine of the                *)
(* health-monitor-app mobile client: the LiveSessionScreen component       *)
(* (metrics view, refresh, live channel, session callbacks) and the        *)
(* metricsStore service (memory and sqlite backends).                      *)
(*                                                                         *)
(* Granularity.  The JavaScript runtime is single threaded: one action is  *)
(* one task (a callback, or an async function up to the await that only a  *)
(* later native event resolves).  Awaits that resolve in microtasks (every *)
(* await on the memory backend) stay inside the action of their task.      *)
(* The sqlite plugin runs the executeSql statements one at a time in the   *)
(* order they were issued; a statement and the resumption of its caller    *)
(* are one action.                                                         *)
(***************************************************************************)
EXTENDS Integers, Sequences, FiniteSets, TLC

VARIABLES
    mounted,            \* the LiveSessionScreen component is mounted
    appActive,          \* AppState.currentState === 'active'
    metrics,            \* useState<HealthMetric[]>: the Authoritative View
    metricsError,       \* useState<string | null>
    metricsLoading,     \* useState(false)
    stale,              \* metrics.length changed: the loadMetrics effect is due
    tasks,              \* loadMetrics invocations awaiting fetchLatestMetrics
    sqlQueue,           \* invocations awaiting an executeSql, in issue order
    backend,            \* which MetricsDb the module variable db holds
    memoryCache,        \* metricsStore.ts memoryCache
    table,              \* rows of the sqlite table metrics
    events,             \* number of external events so far
    last,               \* name of the branch taken by the last step
    connectionState,    \* useState('connecting')
    errorMessage,       \* useState<string | null>
    mediaErrorMessage,  \* useState<string | null>
    connectKey,         \* useState(0)
    isCameraEnabled,    \* useLocalParticipant().isCameraEnabled
    cameraTrack,        \* the camera's mediaStreamTrack: "none", "idle" or "live"
    participantFailure, \* getFailure(lastCameraError ?? lastMicrophoneError)
    cameraStatusMessage,\* MediaDiagnostics useState<string | null>(null)
    watchdog            \* the 2000 ms timer of MediaDiagnostics is armed

syncVars == <<mounted, appActive, metrics, metricsError, metricsLoading, stale,
              tasks, sqlQueue, backend, memoryCache, table, events>>
diagVars == <<isCameraEnabled, cameraTrack, participantFailure, cameraStatusMessage,
              watchdog>>
sessionVars == <<connectionState, errorMessage, mediaErrorMessage, connectKey, diagVars>>
vars == <<syncVars, last, sessionVars>>

----------------------------------------------------------------------------
(* Bounds of the model *)
MaxEvents == 3
MaxKey == 2

(* Program constants *)
ViewCap == 50
FetchLimit == 20

Null == "null"

----------------------------------------------------------------------------
(* Readings (HealthMetric); unit is optional and carried nowhere in the    *)
(* logic, so it is left out.  recorded_at is an ISO string in the code,    *)
(* compared as text by sqlite; it is a number here, in the same order.     *)
Metric(i, v, t) == [id |-> i, metric_type |-> "heart_rate", value |-> v, recorded_at |-> t]

RA == Metric(1, 70, 1)
RB == Metric(2, 80, 2)
RB2 == Metric(2, 85, 2)

Min(a, b) == IF a < b THEN a ELSE b

Slice(s, n) == SubSeq(s, 1, Min(n, Len(s)))

Elems(s) == {s[k] : k \in 1..Len(s)}

Ids(s) == {s[k].id : k \in 1..Len(s)}

RemoveAt(s, i) == SubSeq(s, 1, i - 1) \o SubSeq(s, i + 1, Len(s))

----------------------------------------------------------------------------
(* Inputs *)

\* What GET /v1/metrics/latest?limit=20 may answer
FetchResults == {<<>>, <<RB>>}

\* Messages of rejected fetches: the response text, or the generic one
FetchErrors == {"Failed to fetch metrics"}

\* message of a rejected sqlite statement
StoreFault == "sqlite error"

\* Contents the store may hold from an earlier session
StoredBefore == {<<>>, <<RA>>}

NoValue == [isNull |-> TRUE, type |-> "", isArray |-> FALSE, data |-> <<>>,
            metric_type |-> "", id |-> 0, value |-> 0, recorded_at |-> 0]

SnapshotValue(d) == [NoValue EXCEPT !.isNull = FALSE, !.type = "snapshot",
                                    !.isArray = TRUE, !.data = d]

MetricValue(m) == [NoValue EXCEPT !.isNull = FALSE, !.metric_type = m.metric_type,
                                  !.id = m.id, !.value = m.value,
                                  !.recorded_at = m.recorded_at]

\* event.data of a frame: text that is JSON (of value val) or is not
Frame(isJson, v) == [json |-> isJson, val |-> v]

SnapshotInputs == {<<RA>>, <<RB, RA>>}
IncrementalInputs == {RA, RB2}

MalformedFrames ==
    { Frame(FALSE, NoValue),                                  \* not JSON
      Frame(TRUE, NoValue),                                   \* JSON null
      Frame(TRUE, [NoValue EXCEPT !.isNull = FALSE, !.type = "ping"]),
      Frame(TRUE, [NoValue EXCEPT !.isNull = FALSE, !.type = "snapshot"]) }

Frames == MalformedFrames
          \cup {Frame(TRUE, SnapshotValue(d)) : d \in SnapshotInputs}
          \cup {Frame(TRUE, MetricValue(m)) : m \in IncrementalInputs}

----------------------------------------------------------------------------
(* metricsStore.ts *)

\* INSERT OR REPLACE INTO metrics ...: id is the primary key
InsertOrReplace(rows, m) == {r \in rows : r.id # m.id} \cup {m}

RECURSIVE OrderByRecordedAtDesc(_)
\* ORDER BY recorded_at DESC; rows of equal recorded_at in rowid (id) order
OrderByRecordedAtDesc(rows) ==
    IF rows = {} THEN <<>>
    ELSE LET first == CHOOSE r \in rows : \A q \in rows :
                          \/ r.recorded_at > q.recorded_at
                          \/ r.recorded_at = q.recorded_at /\ r.id <= q.id
         IN <<first>> \o OrderByRecordedAtDesc(rows \ {first})

\* SELECT ... FROM metrics ORDER BY recorded_at DESC LIMIT ?
SqlSelect(rows, limit) == Slice(OrderByRecordedAtDesc(rows), limit)

\* createMemoryDb().loadCachedMetrics
MemLoad(cache, limit) == Slice(cache, limit)

\* a faulty storeMetrics that pushes without clearing (sensitivity check)
MemStoreAppend(cache, ms) == ms \o cache

\* createMemoryDb().storeMetrics
MemStore(cache, ms) == ms

\* createMemoryDb().addMetric
MemAdd(cache, m) == <<m>> \o cache

\* The readings the store holds (the Cache Snapshot)
CacheReadings == IF backend = "memory" THEN Elems(memoryCache) ELSE table

----------------------------------------------------------------------------
(* Suspended async invocations.                                            *)
(*   kind "refresh": a loadMetrics call; cap is the metrics.length its     *)
(*                   closure captured                                      *)
(*   kind "store":   a storeMetrics call of the channel handler (sqlite)   *)
(*   kind "add":     an addMetric call of the channel handler (sqlite)     *)
(*   pc: "fetch" | "delete" | "insert" | "select"                          *)
(* History kept with an invocation, read by the properties only:           *)
(*   cause: what its catch block caught ("fetch" | "store"), "" before     *)
(*   nonEmptyAtFail: the view had content when its catch block ran         *)
(*   alone: no other invocation or handler has written since it started    *)
Task(k, p, c, d) == [kind |-> k, pc |-> p, cap |-> c, data |-> d, idx |-> 1,
                     cause |-> "", nonEmptyAtFail |-> FALSE, alone |-> TRUE]

TaskIds == 1..Len(tasks)

\* another invocation or handler writes: the suspended ones are not alone
Interleaved(pending) ==
    [k \in 1..Len(pending) |-> [pending[k] EXCEPT !.alone = FALSE]]

----------------------------------------------------------------------------
(* LiveSessionScreen: state setters.  React drops a state update of an     *)
(* unmounted component.  metrics.length is a dependency of the loadMetrics *)
(* callback, and loadMetrics is the dependency of the effect that calls    *)
(* it: a setMetrics that changes the length makes that effect due, and     *)
(* React runs it before any later task.                                    *)

SetMetrics(next) ==
    IF mounted
    THEN metrics' = next /\ stale' = (Len(next) # Len(metrics))
    ELSE UNCHANGED <<metrics, stale>>

SetMetricsError(m) == metricsError' = IF mounted THEN m ELSE metricsError

SetMetricsLoading(b) == metricsLoading' = IF mounted THEN b ELSE metricsLoading

\* A setMetrics that changes the length starts a refresh (RunLoadEffect):
\* it is taken only while the bound leaves room for that refresh.
Renderable(next, spent) ==
    ~mounted \/ Len(next) = Len(metrics) \/ events + spent < MaxEvents

\* loadMetrics, up to its await of fetchLatestMetrics
LoadMetrics ==
    /\ events < MaxEvents
    /\ events' = events + 1
    /\ metricsLoading' = TRUE
    /\ metricsError' = Null
    /\ tasks' = Append(tasks, Task("refresh", "fetch", Len(metrics), <<>>))

\* loadMetrics: the finally block
Finally == SetMetricsLoading(FALSE)

\* loadMetrics: the catch block of invocation t, entered with the message of
\* the error; queue holds the other pending statements.  metrics.length is
\* the length the closure captured, t.cap.
Catch(t, message, queue) ==
    /\ SetMetricsError(message)
    /\ IF t.cap = 0
       THEN IF backend = "memory"
            THEN LET cached == MemLoad(memoryCache, FetchLimit) IN
                 /\ IF Len(cached) > 0
                    THEN Renderable(cached, 0) /\ SetMetrics(cached)
                    ELSE UNCHANGED <<metrics, stale>>
                 /\ Finally
                 /\ last' = IF Len(cached) > 0 THEN "Fallback" ELSE "CacheMiss"
                 /\ sqlQueue' = queue
            ELSE /\ sqlQueue' = Append(queue,
                                       [t EXCEPT !.pc = "select",
                                                 !.nonEmptyAtFail = (metrics # <<>>)])
                 /\ last' = "Catch"
                 /\ UNCHANGED <<metrics, stale, metricsLoading>>
       ELSE /\ Finally
            /\ sqlQueue' = queue
            /\ last' = "Catch"
            /\ UNCHANGED <<metrics, stale>>

----------------------------------------------------------------------------
(* LiveSessionScreen: the metric synchronization *)

\* useEffect(() => { loadMetrics(); }, [loadMetrics])
RunLoadEffect ==
    /\ mounted /\ stale
    /\ LoadMetrics
    /\ stale' = FALSE
    /\ last' = "RunLoadEffect"
    /\ UNCHANGED <<mounted, appActive, metrics, sqlQueue, backend, memoryCache,
                   table, sessionVars>>

\* AppState 'change' listener, state === 'active'
AppForeground ==
    /\ mounted /\ ~stale /\ ~appActive
    /\ appActive' = TRUE
    /\ LoadMetrics
    /\ last' = "AppForeground"
    /\ UNCHANGED <<mounted, metrics, stale, sqlQueue, backend, memoryCache, table,
                   sessionVars>>

\* AppState 'change' listener, any other state
AppBackground ==
    /\ mounted /\ ~stale /\ appActive
    /\ appActive' = FALSE
    /\ last' = "AppBackground"
    /\ UNCHANGED <<mounted, metrics, metricsError, metricsLoading, stale, tasks,
                   sqlQueue, backend, memoryCache, table, events, sessionVars>>

\* setInterval callback, every 60000 ms
Tick ==
    /\ mounted /\ ~stale
    /\ IF appActive
       THEN LoadMetrics /\ last' = "Tick"
       ELSE last' = "TickIdle"
            /\ UNCHANGED <<metricsError, metricsLoading, tasks, events>>
    /\ UNCHANGED <<mounted, appActive, metrics, stale, sqlQueue, backend,
                   memoryCache, table, sessionVars>>

\* fetchLatestMetrics resolves with latest
FetchOk(i, latest) ==
    /\ ~stale
    /\ i \in TaskIds
    /\ Renderable(latest, 0)
    /\ SetMetrics(latest)
    /\ tasks' = Interleaved(RemoveAt(tasks, i))
    /\ IF backend = "memory"
       THEN /\ memoryCache' = MemStore(memoryCache, latest)
            /\ Finally
            /\ UNCHANGED sqlQueue
       ELSE /\ sqlQueue' = Append(Interleaved(sqlQueue),
                                  [tasks[i] EXCEPT !.pc = "delete", !.data = latest])
            /\ UNCHANGED <<memoryCache, metricsLoading>>
    /\ last' = "FetchOk"
    /\ UNCHANGED <<mounted, appActive, metricsError, backend, table, events,
                   sessionVars>>

\* fetchLatestMetrics rejects
FetchFail(i, message) ==
    /\ ~stale
    /\ i \in TaskIds
    /\ tasks' = Interleaved(RemoveAt(tasks, i))
    /\ Catch([tasks[i] EXCEPT !.cause = "fetch"], message, Interleaved(sqlQueue))
    /\ UNCHANGED <<mounted, appActive, backend, memoryCache, table, events,
                   sessionVars>>

----------------------------------------------------------------------------
(* createSqliteDb: the statement at the head of the queue is executed and  *)
(* its caller resumes.                                                     *)

\* the storeMetrics / addMetric call of invocation t has resolved
StoreResolved(t) ==
    IF t.kind = "refresh" THEN Finally ELSE UNCHANGED metricsLoading

ResolvedName(t) == IF t.kind = "refresh" THEN "RefreshStored" ELSE "StoreDone"

\* storeMetrics: DELETE FROM metrics
SqlDelete ==
    /\ ~stale
    /\ sqlQueue # << >> /\ Head(sqlQueue).pc = "delete"
    /\ LET t == Head(sqlQueue) IN
       /\ table' = {}
       /\ IF t.data = <<>>
          THEN StoreResolved(t) /\ sqlQueue' = Interleaved(Tail(sqlQueue))
               /\ last' = ResolvedName(t)
          ELSE /\ sqlQueue' = Append(Interleaved(Tail(sqlQueue)),
                                     [t EXCEPT !.pc = "insert"])
               /\ last' = IF table # {} THEN "SqlWipe" ELSE "SqlDelete"
               /\ UNCHANGED metricsLoading
    /\ tasks' = Interleaved(tasks)
    /\ UNCHANGED <<mounted, appActive, metrics, metricsError, stale, backend,
                   memoryCache, events, sessionVars>>

\* storeMetrics (loop body) and addMetric: INSERT OR REPLACE INTO metrics
SqlInsert ==
    /\ ~stale
    /\ sqlQueue # << >> /\ Head(sqlQueue).pc = "insert"
    /\ LET t == Head(sqlQueue) IN
       /\ table' = InsertOrReplace(table, t.data[t.idx])
       /\ IF t.idx = Len(t.data)
          THEN StoreResolved(t) /\ sqlQueue' = Interleaved(Tail(sqlQueue))
               /\ last' = ResolvedName(t)
          ELSE /\ sqlQueue' = Append(Interleaved(Tail(sqlQueue)),
                                     [t EXCEPT !.idx = @ + 1])
               /\ last' = "SqlInsert"
               /\ UNCHANGED metricsLoading
    /\ tasks' = Interleaved(tasks)
    /\ UNCHANGED <<mounted, appActive, metrics, metricsError, stale, backend,
                   memoryCache, events, sessionVars>>

\* loadCachedMetrics: SELECT ... ORDER BY recorded_at DESC LIMIT ?, and
\* loadMetrics resuming with cached
SqlLoad ==
    /\ ~stale
    /\ sqlQueue # << >> /\ Head(sqlQueue).pc = "select"
    /\ LET cached == SqlSelect(table, FetchLimit) IN
       /\ IF Len(cached) > 0
          THEN Renderable(cached, 0) /\ SetMetrics(cached)
          ELSE UNCHANGED <<metrics, stale>>
       /\ last' = IF Len(cached) > 0 THEN "Fallback" ELSE "CacheMiss"
    /\ Finally
    /\ sqlQueue' = Interleaved(Tail(sqlQueue))
    /\ tasks' = Interleaved(tasks)
    /\ UNCHANGED <<mounted, appActive, metricsError, backend, memoryCache, table,
                   events, sessionVars>>

\* the statement at the head of the queue rejects (a storage-layer fault)
SqlFail ==
    /\ ~stale
    /\ events < MaxEvents
    /\ sqlQueue # << >>
    /\ events' = events + 1
    /\ LET t == Head(sqlQueue) IN
       IF t.kind = "refresh" /\ t.pc # "select"
       THEN Catch([t EXCEPT !.cause = "store"], StoreFault,
                  Interleaved(Tail(sqlQueue)))       \* await storeMetrics throws
       ELSE /\ StoreResolved(t)      \* nothing catches it: the promise rejects
            /\ sqlQueue' = Interleaved(Tail(sqlQueue))
            /\ last' = IF t.kind = "refresh" THEN "RefreshRejected" ELSE "SqlFail"
            /\ UNCHANGED <<metrics, metricsError, stale>>
    /\ tasks' = Interleaved(tasks)
    /\ UNCHANGED <<mounted, appActive, backend, memoryCache, table, sessionVars>>

----------------------------------------------------------------------------
(* LiveSessionScreen: socket.onmessage *)

\* JSON.parse(event.data) throws on text that is not JSON, and payload.type
\* throws on the JSON value null; the handler's catch swallows both
Throws(frame) == ~frame.json \/ frame.val.isNull

\* payload.type === 'snapshot' && Array.isArray(payload.data)
IsSnapshot(payload) == payload.type = "snapshot" /\ payload.isArray

\* a faulty test that accepts every non-null payload (sensitivity check)
IsMetricAnyObject(payload) == ~payload.isNull

\* payload?.metric_type
IsMetric(payload) == payload.metric_type # ""

\* payload as HealthMetric
AsMetric(payload) == [id |-> payload.id, metric_type |-> payload.metric_type,
                      value |-> payload.value, recorded_at |-> payload.recorded_at]

\* (prev) => [metric, ...prev].slice(0, 50)
Prepend(metric, prev) == Slice(<<metric>> \o prev, ViewCap)

OnSnapshot(snapshot) ==
    /\ Renderable(snapshot, 1)
    /\ SetMetrics(snapshot)
    /\ IF backend = "memory"
       THEN memoryCache' = MemStore(memoryCache, snapshot) /\ UNCHANGED sqlQueue
       ELSE sqlQueue' = Append(Interleaved(sqlQueue),
                               Task("store", "delete", 0, snapshot))
            /\ UNCHANGED memoryCache
    /\ tasks' = Interleaved(tasks)
    /\ last' = "Snapshot"

OnMetric(metric) ==
    /\ Renderable(Prepend(metric, metrics), 1)
    /\ SetMetrics(Prepend(metric, metrics))
    /\ IF backend = "memory"
       THEN memoryCache' = MemAdd(memoryCache, metric) /\ UNCHANGED sqlQueue
       ELSE sqlQueue' = Append(Interleaved(sqlQueue),
                               Task("add", "insert", 0, <<metric>>))
            /\ UNCHANGED memoryCache
    /\ tasks' = Interleaved(tasks)
    /\ last' = "Incremental"

OnIgnored ==
    /\ last' = "Ignored"
    /\ UNCHANGED <<metrics, stale, memoryCache, sqlQueue, tasks>>

OnMessage(frame) ==
    /\ mounted /\ ~stale
    /\ events < MaxEvents
    /\ events' = events + 1
    /\ IF Throws(frame) THEN OnIgnored
       ELSE IF IsSnapshot(frame.val) THEN OnSnapshot(frame.val.data)
       ELSE IF IsMetric(frame.val) THEN OnMetric(AsMetric(frame.val))
       ELSE OnIgnored
    /\ UNCHANGED <<mounted, appActive, metricsError, metricsLoading, backend, table,
                   sessionVars>>

\* a teardown that also empties the store
UnmountClearingStore ==
    /\ mounted
    /\ mounted' = FALSE
    /\ stale' = FALSE
    /\ memoryCache' = << >>
    /\ table' = {}
    /\ last' = "Unmount"
    /\ UNCHANGED <<appActive, metrics, metricsError, metricsLoading, tasks, sqlQueue,
                   backend, events, sessionVars>>

\* the component unmounts: the effects' cleanups close the socket, remove the
\* AppState listener and clear the interval; pending promises stay pending
Unmount ==
    /\ mounted
    /\ mounted' = FALSE
    /\ stale' = FALSE
    /\ last' = "Unmount"
    /\ UNCHANGED <<appActive, metrics, metricsError, metricsLoading, tasks, sqlQueue,
                   backend, memoryCache, table, events, sessionVars>>

----------------------------------------------------------------------------
(* LiveSessionScreen: the session callbacks given to useLiveKitRoom, and   *)
(* the Retry button.  The transport raises its signals in any state.       *)

\* error.message of a transport error: any string, the empty one included
TransportErrors == {"", "could not establish pc connection"}

\* MediaDeviceFailure, or undefined when the error maps to no failure
MediaFailures == {"undefined", "PermissionDenied", "NotFound", "DeviceInUse", "Other"}

DisconnectedText == "Disconnected before media negotiation completed."
PermissionDeniedText == "Camera or microphone permission denied. Enable access in Settings."
MediaFailedText == "Camera/microphone failed to start. Try reconnecting."

\* a string is falsy in JavaScript when null or empty
Truthy(str) == str # Null /\ str # ""

\* onConnected
OnConnected ==
    /\ mounted
    /\ connectionState' = "connected"
    /\ errorMessage' = Null
    /\ last' = "OnConnected"
    /\ UNCHANGED <<syncVars, mediaErrorMessage, connectKey, diagVars>>

\* onDisconnected
OnDisconnected ==
    /\ mounted
    /\ connectionState' = "disconnected"
    /\ errorMessage' = DisconnectedText
    /\ last' = "OnDisconnected"
    /\ UNCHANGED <<syncVars, mediaErrorMessage, connectKey, diagVars>>

\* onError
OnError(message) ==
    /\ mounted
    /\ connectionState' = "error"
    /\ errorMessage' = message
    /\ last' = "OnError"
    /\ UNCHANGED <<syncVars, mediaErrorMessage, connectKey, diagVars>>

\* the advisory text onMediaDeviceFailure chooses
MediaFailureText(failure) ==
    IF failure = "PermissionDenied" THEN PermissionDeniedText ELSE MediaFailedText

\* a faulty callback that also moves the session to the error state
\* (sensitivity check)
OnMediaDeviceFailureAsError(failure) ==
    /\ mounted
    /\ failure # "undefined"
    /\ mediaErrorMessage' = MediaFailureText(failure)
    /\ connectionState' = "error"
    /\ last' = "OnMediaDeviceFailure"
    /\ UNCHANGED <<syncVars, errorMessage, connectKey, diagVars>>

\* onMediaDeviceFailure
OnMediaDeviceFailure(failure) ==
    /\ mounted
    /\ IF failure = "undefined"
       THEN UNCHANGED mediaErrorMessage
       ELSE mediaErrorMessage' = MediaFailureText(failure)
    /\ last' = "OnMediaDeviceFailure"
    /\ UNCHANGED <<syncVars, connectionState, errorMessage, connectKey, diagVars>>

\* the attempt whose room raises the signals: useLiveKitRoom is called with
\* serverUrl, token and connect: true only, connectKey is not among them, so
\* the room of the first attempt stays the one the callbacks belong to
SignalAttempt == 0

\* the Retry button is rendered: connectionState === 'error' && errorMessage
RetryShown == connectionState = "error" /\ Truthy(errorMessage)

\* retryConnect, the onPress of the Retry button
RetryConnect ==
    /\ mounted
    /\ RetryShown
    /\ connectKey < MaxKey
    /\ errorMessage' = Null
    /\ mediaErrorMessage' = Null
    /\ connectionState' = "connecting"
    /\ connectKey' = connectKey + 1
    /\ last' = "RetryConnect"
    /\ UNCHANGED <<syncVars, diagVars>>

----------------------------------------------------------------------------
(* MediaDiagnostics, rendered with onMessage = setMediaErrorMessage.  The   *)
(* local participant's camera flag, camera track and last device error are *)
(* inputs from the transport library.                                      *)

WatchdogText == "Camera is enabled but no video frames are available."
NotFoundText == "No camera/microphone detected. Use a physical device if on simulator."
DeviceInUseText == "Camera/microphone is already in use by another app."

CameraTracks == {"none", "idle", "live"}

\* useMemo mediaFailureMessage
MediaFailureMessage(failure) ==
    CASE failure = "undefined" -> Null
      [] failure = "PermissionDenied" -> PermissionDeniedText
      [] failure = "NotFound" -> NotFoundText
      [] failure = "DeviceInUse" -> DeviceInUseText
      [] OTHER -> MediaFailedText

\* a ?? b
Coalesce(a, b) == IF a # Null THEN a ELSE b

\* useEffect(() => onMessage(mediaFailureMessage ?? cameraStatusMessage)):
\* runs when one of the two messages has changed
ReportEffect(status, failure) ==
    mediaErrorMessage' =
        IF \/ status # cameraStatusMessage
           \/ MediaFailureMessage(failure) # MediaFailureMessage(participantFailure)
        THEN Coalesce(MediaFailureMessage(failure), status)
        ELSE mediaErrorMessage

\* the watchdog effect, run with the new camera flag and track: its cleanup
\* clears the timer, then it clears the status or arms the timer
WatchdogEffect(enabled, track) ==
    LET clear == ~enabled \/ track = "live"
        status == IF clear THEN Null ELSE cameraStatusMessage
    IN /\ cameraStatusMessage' = status
       /\ watchdog' = ~clear
       /\ ReportEffect(status, participantFailure)

\* isCameraEnabled changes
CameraToggled ==
    /\ mounted
    /\ isCameraEnabled' = ~isCameraEnabled
    /\ WatchdogEffect(~isCameraEnabled, cameraTrack)
    /\ last' = "CameraToggled"
    /\ UNCHANGED <<syncVars, connectionState, errorMessage, connectKey, cameraTrack,
                   participantFailure>>

\* cameraTrack?.track?.mediaStreamTrack changes
TrackChanged(track) ==
    /\ mounted
    /\ track # cameraTrack
    /\ cameraTrack' = track
    /\ WatchdogEffect(isCameraEnabled, track)
    /\ last' = "TrackChanged"
    /\ UNCHANGED <<syncVars, connectionState, errorMessage, connectKey,
                   isCameraEnabled, participantFailure>>

\* mediaStreamTrack.readyState changes on the track the component already
\* holds: the track object is the same, so the effect's dependencies
\* [mediaStreamTrack, isCameraEnabled] are unchanged and it does not re-run
ReadyStateChanged(state) ==
    /\ mounted
    /\ cameraTrack # "none"
    /\ state \in CameraTracks \ {"none", cameraTrack}
    /\ cameraTrack' = state
    /\ last' = "ReadyStateChanged"
    /\ UNCHANGED <<syncVars, connectionState, errorMessage, mediaErrorMessage,
                   connectKey, isCameraEnabled, participantFailure,
                   cameraStatusMessage, watchdog>>

\* the setTimeout callback, 2000 ms after the effect armed it
WatchdogFires ==
    /\ mounted
    /\ watchdog
    /\ watchdog' = FALSE
    /\ cameraStatusMessage' = WatchdogText
    /\ ReportEffect(WatchdogText, participantFailure)
    /\ last' = "WatchdogFires"
    /\ UNCHANGED <<syncVars, connectionState, errorMessage, connectKey,
                   isCameraEnabled, cameraTrack, participantFailure>>

\* lastCameraError / lastMicrophoneError change
ParticipantError(failure) ==
    /\ mounted
    /\ failure # participantFailure
    /\ participantFailure' = failure
    /\ ReportEffect(cameraStatusMessage, failure)
    /\ last' = "ParticipantError"
    /\ UNCHANGED <<syncVars, connectionState, errorMessage, connectKey,
                   isCameraEnabled, cameraTrack, cameraStatusMessage, watchdog>>

----------------------------------------------------------------------------
(* The state once the component has mounted and its effects have run:      *)
(* initMetricsDb chose the backend, and the first loadMetrics awaits its   *)
(* fetch with an empty view.                                               *)
Init ==
    /\ mounted = TRUE
    /\ appActive = TRUE
    /\ metrics = <<>>
    /\ metricsError = Null
    /\ metricsLoading = TRUE
    /\ stale = FALSE
    /\ tasks = <<Task("refresh", "fetch", 0, <<>>)>>
    /\ sqlQueue = <<>>
    /\ backend \in {"memory", "sqlite"}
    /\ \E stored \in StoredBefore :
          /\ memoryCache = IF backend = "memory" THEN stored ELSE <<>>
          /\ table = IF backend = "sqlite" THEN Elems(stored) ELSE {}
    /\ events = 0
    /\ last = "Init"
    /\ connectionState = "connecting"
    /\ errorMessage = Null
    /\ mediaErrorMessage = Null
    /\ connectKey = 0
    /\ isCameraEnabled = FALSE
    /\ cameraTrack = "none"
    /\ participantFailure = "undefined"
    /\ cameraStatusMessage = Null
    /\ watchdog = FALSE

Next ==
    \/ RunLoadEffect
    \/ AppForeground
    \/ AppBackground
    \/ Tick
    \/ \E i \in TaskIds, latest \in FetchResults : FetchOk(i, latest)
    \/ \E i \in TaskIds, message \in FetchErrors : FetchFail(i, message)
    \/ SqlDelete
    \/ SqlInsert
    \/ SqlLoad
    \/ SqlFail
    \/ \E frame \in Frames : OnMessage(frame)
    \/ Unmount

Spec == Init /\ [][Next]_vars

----------------------------------------------------------------------------
(* The controller when nothing fails: every fetch and every statement of  *)
(* the durable backend resolves, so no refresh reaches its catch block and *)
(* the view is made of full writes and incremental readings only.          *)

FaultFreeNext ==
    \/ RunLoadEffect
    \/ AppForeground
    \/ AppBackground
    \/ Tick
    \/ \E i \in TaskIds, latest \in FetchResults : FetchOk(i, latest)
    \/ SqlDelete
    \/ SqlInsert
    \/ \E frame \in Frames : OnMessage(frame)
    \/ Unmount

FaultFreeSpec == Init /\ [][FaultFreeNext]_vars

\* The memory backend with a channel that also delivers a snapshot of more
\* readings than the view's cap
BigSnapshot == [k \in 1..(ViewCap + 1) |-> Metric(k, 70, ViewCap + 2 - k)]

CapInit == Init /\ backend = "memory"

CapNext ==
    \/ RunLoadEffect
    \/ AppForeground
    \/ AppBackground
    \/ Tick
    \/ \E i \in TaskIds, latest \in FetchResults : FetchOk(i, latest)
    \/ \E i \in TaskIds, message \in FetchErrors : FetchFail(i, message)
    \/ \E frame \in Frames \cup {Frame(TRUE, SnapshotValue(BigSnapshot))} :
          OnMessage(frame)
    \/ Unmount

CapSpec == CapInit /\ [][CapNext]_vars

----------------------------------------------------------------------------
(* metricsStore.ts on its own: the exported functions called one at a time *)
(* from a fresh process (db is null, nothing stored).  The memory and the  *)
(* sqlite MetricsDb are both given every call, so that what each would     *)
(* answer can be compared; backend is the one db holds.                    *)

\* the arguments of storeMetrics and addMetric
StoreLists == {<<>>, <<RA>>, <<RB, RA>>}
StoreReadings == {RA, RB, RB2}

\* the limits loadCachedMetrics is asked with
Limits == {1, 2, FetchLimit}

RECURSIVE InsertAll(_, _)
\* for (const metric of metrics) INSERT OR REPLACE ...
InsertAll(rows, ms) ==
    IF ms = <<>> THEN rows
    ELSE InsertAll(InsertOrReplace(rows, Head(ms)), Tail(ms))

\* createSqliteDb().storeMetrics with no other statement in between
SqlStore(rows, ms) == InsertAll({}, ms)

\* a faulty selection that chooses again on every call (sensitivity check)
ChosenDbAgain(available) == IF available THEN "sqlite" ELSE "memory"

\* initMetricsDb: the MetricsDb db holds after the call; require() of the
\* sqlite module succeeds (available) or throws
ChosenDb(available) ==
    IF backend # "none" THEN backend
    ELSE IF available THEN "sqlite" ELSE "memory"

screenVars == <<mounted, appActive, metrics, metricsError, metricsLoading, stale,
                tasks>>

\* initMetricsDb(), up to its await of db.init(): on sqlite the CREATE TABLE
\* statement is issued, on memory init resolves at once
InitMetricsDb(available) ==
    /\ events < MaxEvents
    /\ events' = events + 1
    /\ backend' = ChosenDb(available)
    /\ sqlQueue' = IF backend' = "sqlite"
                   THEN Append(sqlQueue, Task("init", "create", 0, <<>>))
                   ELSE sqlQueue
    /\ last' = "InitMetricsDb"
    /\ UNCHANGED <<screenVars, memoryCache, table, sessionVars>>

\* a CREATE TABLE that lets the statements issued after it run first
SqlCreateDeferred ==
    /\ sqlQueue # <<>> /\ Head(sqlQueue).pc = "create"
    /\ sqlQueue' = IF Len(sqlQueue) > 1
                   THEN Append(Tail(sqlQueue), Head(sqlQueue))
                   ELSE Tail(sqlQueue)
    /\ last' = "SqlCreate"
    /\ UNCHANGED <<screenVars, backend, memoryCache, table, events, sessionVars>>

\* CREATE TABLE IF NOT EXISTS metrics: the rows of an existing table stay
SqlCreate ==
    /\ sqlQueue # <<>> /\ Head(sqlQueue).pc = "create"
    /\ sqlQueue' = Tail(sqlQueue)
    /\ last' = "SqlCreate"
    /\ UNCHANGED <<screenVars, backend, memoryCache, table, events, sessionVars>>

\* an exported function called while no other call is pending:
\* if (!db) await initMetricsDb()
FirstUse ==
    /\ events < MaxEvents
    /\ events' = events + 1
    /\ sqlQueue = <<>>
    /\ \E available \in BOOLEAN : backend' = ChosenDb(available)
    /\ UNCHANGED <<screenVars, sqlQueue, sessionVars>>

\* storeMetrics(ms), run to completion
CallStoreMetrics(ms) ==
    /\ FirstUse
    /\ memoryCache' = MemStore(memoryCache, ms)
    /\ table' = SqlStore(table, ms)
    /\ last' = "CallStoreMetrics"

\* addMetric(m), run to completion
CallAddMetric(m) ==
    /\ FirstUse
    /\ memoryCache' = MemAdd(memoryCache, m)
    /\ table' = InsertOrReplace(table, m)
    /\ last' = "CallAddMetric"

\* loadCachedMetrics(limit), run to completion: it writes nothing
CallLoadCachedMetrics ==
    /\ FirstUse
    /\ last' = "CallLoadCachedMetrics"
    /\ UNCHANGED <<memoryCache, table>>

StoreInit ==
    /\ mounted = FALSE
    /\ appActive = TRUE
    /\ metrics = <<>>
    /\ metricsError = Null
    /\ metricsLoading = FALSE
    /\ stale = FALSE
    /\ tasks = <<>>
    /\ sqlQueue = <<>>
    /\ backend = "none"
    /\ memoryCache = <<>>
    /\ table = {}
    /\ events = 0
    /\ last = "Init"
    /\ connectionState = "connecting"
    /\ errorMessage = Null
    /\ mediaErrorMessage = Null
    /\ connectKey = 0
    /\ isCameraEnabled = FALSE
    /\ cameraTrack = "none"
    /\ participantFailure = "undefined"
    /\ cameraStatusMessage = Null
    /\ watchdog = FALSE

StoreNext ==
    \/ \E available \in BOOLEAN : InitMetricsDb(available)
    \/ SqlCreate
    \/ \E ms \in StoreLists : CallStoreMetrics(ms)
    \/ \E m \in StoreReadings : CallAddMetric(m)
    \/ CallLoadCachedMetrics

StoreSpec == StoreInit /\ [][StoreNext]_vars

----------------------------------------------------------------------------
(* The component right after mount on the durable backend: the effect at   *)
(* 225-227 has called initMetricsDb, which set db and issued CREATE TABLE  *)
(* behind `await dbPromise`, and the effect at 251-253 has started the     *)
(* first refresh.  Nothing is stored yet (a first run).  Statements of     *)
(* later calls queue behind the CREATE.                                    *)

ColdInit ==
    /\ mounted = TRUE
    /\ appActive = TRUE
    /\ metrics = <<>>
    /\ metricsError = Null
    /\ metricsLoading = TRUE
    /\ stale = FALSE
    /\ tasks = <<Task("refresh", "fetch", 0, <<>>)>>
    /\ sqlQueue = <<Task("init", "create", 0, <<>>)>>
    /\ backend = "sqlite"
    /\ memoryCache = <<>>
    /\ table = {}
    /\ events = 0
    /\ last = "Init"
    /\ connectionState = "connecting"
    /\ errorMessage = Null
    /\ mediaErrorMessage = Null
    /\ connectKey = 0
    /\ isCameraEnabled = FALSE
    /\ cameraTrack = "none"
    /\ participantFailure = "undefined"
    /\ cameraStatusMessage = Null
    /\ watchdog = FALSE

ColdNext ==
    \/ Next
    \/ SqlCreate

ColdStartSpec == ColdInit /\ [][ColdNext]_vars

----------------------------------------------------------------------------
(* The controller for the question whether it comes to rest.  Channel      *)
(* messages are counted and bounded as before, so in every behaviour they  *)
(* stop; there is no timer tick and no foreground transition.  The effect  *)
(* that re-runs loadMetrics when the view's length has changed is an       *)
(* internal step and is not counted.  React runs a due effect and every    *)
(* fetch settles: these two are the fairness conditions.  The in-memory    *)
(* backend keeps the state finite.                                         *)

\* useEffect(() => { loadMetrics(); }, [loadMetrics]), not counted
QuietLoadEffect ==
    /\ mounted /\ stale
    /\ metricsLoading' = TRUE
    /\ metricsError' = Null
    /\ tasks' = Append(tasks, Task("refresh", "fetch", Len(metrics), <<>>))
    /\ stale' = FALSE
    /\ last' = "RunLoadEffect"
    /\ UNCHANGED <<mounted, appActive, metrics, sqlQueue, backend, memoryCache,
                   table, events, sessionVars>>

\* the fetch of a refresh in flight resolves or rejects
FetchSettles ==
    \/ \E i \in TaskIds, latest \in FetchResults : FetchOk(i, latest)
    \/ \E i \in TaskIds, message \in FetchErrors : FetchFail(i, message)

QuietNext ==
    \/ QuietLoadEffect
    \/ FetchSettles
    \/ \E frame \in Frames : OnMessage(frame)

QuietSpec ==
    /\ CapInit
    /\ [][QuietNext]_vars
    /\ WF_vars(QuietLoadEffect)
    /\ WF_vars(FetchSettles)

\* The session callbacks alone (the metric synchronization shares no state
\* with them)
SessionNext ==
    \/ OnConnected
    \/ OnDisconnected
    \/ \E message \in TransportErrors : OnError(message)
    \/ \E failure \in MediaFailures : OnMediaDeviceFailure(failure)
    \/ RetryConnect
    \/ CameraToggled
    \/ \E track \in CameraTracks : TrackChanged(track)
    \/ \E state \in CameraTracks : ReadyStateChanged(state)
    \/ WatchdogFires
    \/ \E failure \in MediaFailures : ParticipantError(failure)

SessionSpec == Init /\ [][SessionNext]_vars

----------------------------------------------------------------------------
(* Properties of the Authoritative View (metrics) and the Cache Snapshot   *)

IncrementalFrame(m) == Frame(TRUE, MetricValue(m))
SnapshotFrame(d) == Frame(TRUE, SnapshotValue(d))

\* a frame that is not JSON, or JSON that is neither a snapshot object nor an
\* object with a metric_type
Malformed(frame) ==
    \/ ~frame.json
    \/ frame.val.isNull
    \/ ~(frame.val.type = "snapshot" /\ frame.val.isArray) /\ frame.val.metric_type = ""

NewestFirst(s) == \A k \in 1..(Len(s) - 1) : s[k].recorded_at >= s[k + 1].recorded_at

\* C1: in every reachable state no two entries of the view share an id.
C1_UniqueIdentities == Cardinality(Ids(metrics)) = Len(metrics)

\* C2: an incremental message whose id is already in the view replaces that
\* entry's value and does not make the view longer.
C2_UpsertReplaces ==
    [][\A m \in IncrementalInputs :
          (OnMessage(IncrementalFrame(m)) /\ m.id \in Ids(metrics))
          => /\ Len(metrics') = Len(metrics)
             /\ \A k \in 1..Len(metrics') : metrics'[k].id = m.id => metrics'[k] = m]_vars

\* C3: a refresh whose fetch fails while the view has content leaves the view
\* as it is, whenever the view got its content.  On the memory backend the
\* catch block completes in the step of the failure; on sqlite the view had
\* content when the catch block ran (nonEmptyAtFail) and the step is the one
\* that resumes it with the cached rows.
C3_FallbackKeepsView ==
    [][/\ \A i \in TaskIds, message \in FetchErrors :
             (FetchFail(i, message) /\ metrics # <<>>) => metrics' = metrics
       /\ (/\ SqlLoad
           /\ Head(sqlQueue).cause = "fetch"
           /\ Head(sqlQueue).nonEmptyAtFail) => metrics' = metrics]_vars

\* C4: a refresh whose fetch fails while the view is empty and the store is
\* non-empty (and holds no statement still to run) sets the sync-error message
\* and makes the view the store's load() result: at once on the memory
\* backend, by issuing the SELECT on sqlite.
C4_FallbackFromStore ==
    [][\A i \in TaskIds, message \in FetchErrors :
          (/\ FetchFail(i, message)
           /\ mounted /\ metrics = <<>> /\ CacheReadings # {} /\ sqlQueue = <<>>)
          => /\ metricsError' = message
             /\ IF backend = "memory"
                THEN metrics' = MemLoad(memoryCache, FetchLimit)
                ELSE sqlQueue' # <<>> /\ Head(sqlQueue').pc = "select"]_vars

\* C5: once a snapshot message is processed the view holds exactly the
\* snapshot, and once its store write has completed the cache holds exactly
\* the snapshot: nothing that was in the view or the cache before remains.
C5_SnapshotReplacesAll ==
    [][/\ \A d \in SnapshotInputs :
             OnMessage(SnapshotFrame(d))
             => /\ metrics' = d
                /\ backend = "memory" => CacheReadings' = Elems(d)
       /\ (/\ SqlInsert \/ SqlDelete
           /\ Head(sqlQueue).kind = "store"
           /\ last' = "StoreDone") => table' = Elems(Head(sqlQueue).data)]_vars

\* C6: a malformed frame leaves the view and the cache as they are, issues no
\* store statement, and leaves the channel open (the handler returns).
C6_MalformedIgnored ==
    [][\A frame \in Frames :
          (OnMessage(frame) /\ Malformed(frame))
          => /\ metrics' = metrics
             /\ CacheReadings' = CacheReadings
             /\ sqlQueue' = sqlQueue
             /\ mounted' = mounted]_vars

\* the view has content, and the last frame was ignored
C6_Witness == last = "Ignored" /\ metrics # <<>> /\ CacheReadings # {} /\ mounted

\* C7: when a refresh's fetch succeeds and nothing else has written since the
\* refresh started (alone), the view is the fetched list and the sync-error
\* message is clear; the store holds exactly the fetched readings once
\* storeMetrics has resolved (in the same step on the memory backend).
C7_RefreshSuccess ==
    [][/\ \A i \in TaskIds, latest \in FetchResults :
             (FetchOk(i, latest) /\ mounted /\ tasks[i].alone)
             => /\ metrics' = latest
                /\ metricsError' = Null
                /\ backend = "memory" => memoryCache' = latest
       /\ (/\ SqlInsert \/ SqlDelete
           /\ Head(sqlQueue).alone
           /\ last' = "RefreshStored")
          => /\ table' = Elems(Head(sqlQueue).data)
             /\ mounted => metricsError' = Null /\ metrics' = Head(sqlQueue).data]_vars

\* a refresh has fetched a non-empty list and its storeMetrics has resolved
\* on sqlite: view and table hold the fetched reading
C7_Witness ==
    /\ last = "RefreshStored" /\ backend = "sqlite" /\ mounted
    /\ metrics = <<RB>> /\ table = {RB} /\ metricsError = Null
    /\ sqlQueue = <<>>

\* C8: the view never holds more than the cap of 50 readings.
C8_ViewWithinCap == Len(metrics) <= ViewCap

\* C9: the view is sorted by recorded_at, newest first.
C9_NewestFirst == NewestFirst(metrics)

\* C10: a media-device failure signal leaves the connection state and the
\* last-error message as they are, and a failure of any category sets the
\* advisory message.
C10_MediaFailureFrame ==
    [][\A failure \in MediaFailures :
          OnMediaDeviceFailure(failure)
          => /\ connectionState' = connectionState
             /\ errorMessage' = errorMessage
             /\ failure # "undefined" => mediaErrorMessage' = MediaFailureText(failure)]_vars

\* a failure was signalled after the session had disconnected
C10_Witness ==
    /\ last = "OnMediaDeviceFailure"
    /\ connectionState = "disconnected" /\ errorMessage = DisconnectedText
    /\ mediaErrorMessage = PermissionDeniedText

\* C11: an advisory message set by a media-device failure signal stays as it
\* is in the step that follows the signal, unless that step is a successful
\* reconnect or a further failure signal: neither a disconnect, a transport
\* error, a retry nor the diagnostics (watchdog) path clears or replaces it.
C11_AdvisoryPersists ==
    [][(last = "OnMediaDeviceFailure" /\ mediaErrorMessage # Null)
       => \/ mediaErrorMessage' = mediaErrorMessage
          \/ OnConnected
          \/ \E failure \in MediaFailures : OnMediaDeviceFailure(failure)]_vars

\* the transitions the session state machine allows
AllowedTransition(from, to) ==
    \/ from = "connecting" /\ to \in {"connected", "error"}
    \/ from = "connected" /\ to \in {"degraded", "disconnected", "error"}
    \/ from = "degraded" /\ to \in {"connected", "disconnected"}
    \/ from \in {"disconnected", "error"} /\ to = "connecting"

\* C12: the session state changes only along the allowed transitions, and
\* leaves disconnected or error only by the operator's reconnect.
C12_LegalTransitions ==
    [][connectionState' # connectionState
       => /\ AllowedTransition(connectionState, connectionState')
          /\ connectionState \in {"disconnected", "error"} => RetryConnect]_vars

----------------------------------------------------------------------------
(* Properties of the Local Metric Store *)

Backends == {"memory", "sqlite"}

\* what loadCachedMetrics(limit) of backend b answers on the given contents
LoadFrom(b, cache, rows, limit) ==
    IF b = "memory" THEN MemLoad(cache, limit) ELSE SqlSelect(rows, limit)

UniqueIds(s) == Cardinality(Ids(s)) = Len(s)

\* C13: on both backends load(limit) answers at most limit readings, newest
\* first by recorded_at, and the empty sequence before anything was stored.
C13_LoadContract ==
    \A b \in Backends, limit \in Limits :
        LET out == LoadFrom(b, memoryCache, table, limit) IN
        /\ Len(out) <= limit
        /\ NewestFirst(out)
        /\ events = 0 => out = <<>>

\* C14: on both backends load() never answers two readings of one id, and
\* after addMetric(m) the reading of id m.id that load() answers is m.
C14_UpsertByIdentity ==
    [][\A b \in Backends :
          LET out == LoadFrom(b, memoryCache', table', FetchLimit) IN
          /\ UniqueIds(out)
          /\ \A m \in StoreReadings :
                CallAddMetric(m)
                => \A k \in 1..Len(out) : out[k].id = m.id => out[k] = m]_vars

\* a storeMetrics call that has run its DELETE and not yet its last INSERT
InProgress(t) == t.kind \in {"refresh", "store"} /\ t.pc = "insert"

\* C15: a load that runs while a storeMetrics call is in progress sees the
\* table either as it was before that call or holding exactly the call's set:
\* a load that runs right after the DELETE of a call that removed rows and
\* has rows to insert (last is "SqlWipe") does not see an empty table.
C15_ReplaceAllAtomic ==
    [][(/\ SqlLoad
        /\ last = "SqlWipe"
        /\ \E k \in 1..Len(sqlQueue) : InProgress(sqlQueue[k])) => table # {}]_vars

\* C16: once db holds a backend it holds that backend for good, and a later
\* initMetricsDb call, also one made while an earlier CREATE TABLE is still
\* pending, and the CREATE TABLE itself leave the stored readings alone.
C16_BackendChosenOnce ==
    [][/\ backend # "none" => backend' = backend
       /\ \A available \in BOOLEAN :
             InitMetricsDb(available)
             => memoryCache' = memoryCache /\ table' = table
       /\ SqlCreate => memoryCache' = memoryCache /\ table' = table]_vars

\* initMetricsDb was called again while the first CREATE TABLE was pending
C16_Witness ==
    /\ last = "InitMetricsDb" /\ backend = "sqlite" /\ Len(sqlQueue) = 2

\* C17: given the same calls one at a time, the two backends answer every
\* load(limit) alike.
C17_BackendsEquivalent ==
    \A limit \in Limits :
        LoadFrom("memory", memoryCache, table, limit)
            = LoadFrom("sqlite", memoryCache, table, limit)

----------------------------------------------------------------------------
(* Properties of the refresh *)

\* C18: a rejected store statement (a storage-layer fault) neither sets the
\* sync-error message nor changes the view.
C18_StoreFaultHidden ==
    [][SqlFail => metricsError' = metricsError /\ metrics' = metrics]_vars

\* C19: a fetch that settles after the component has unmounted writes neither
\* the view nor the store.
C19_TeardownDiscards ==
    [][/\ \A i \in TaskIds, latest \in FetchResults :
             (FetchOk(i, latest) /\ ~mounted)
             => /\ metrics' = metrics
                /\ memoryCache' = memoryCache /\ table' = table
                /\ Len(sqlQueue') = Len(sqlQueue)
       /\ \A i \in TaskIds, message \in FetchErrors :
             (FetchFail(i, message) /\ ~mounted) => metrics' = metrics]_vars

\* C20: a refresh is started only by the application coming to the foreground
\* or by a timer tick (the start of the controller is the initial state),
\* and a tick while the application is in the background starts none.
C20_RefreshTriggers ==
    [][/\ Len(tasks') > Len(tasks) => AppForeground \/ Tick
       /\ (Tick /\ ~appActive) => tasks' = tasks]_vars
\* the store calls of channel messages (replaceAll of a snapshot, upsertOne of
\* a reading) that are waiting in the statement queue
ChannelCalls(queue) == {k \in 1..Len(queue) : queue[k].kind \in {"store", "add"}}

\* C21: after the controller's teardown no channel message is applied to the
\* view or the store (the view stays as it is and no store call of a channel
\* message is issued), no refresh is started by the timer or by a foreground
\* transition, and the teardown step itself leaves the store's contents and
\* its pending statements as they were.
C21_TeardownStops ==
    [][/\ ~mounted =>
            /\ metrics' = metrics
            /\ Len(tasks') <= Len(tasks)
            /\ Cardinality(ChannelCalls(sqlQueue')) <= Cardinality(ChannelCalls(sqlQueue))
            /\ ~Tick /\ ~AppForeground /\ ~RunLoadEffect
            /\ \A frame \in Frames : ~OnMessage(frame)
       /\ Unmount => memoryCache' = memoryCache /\ table' = table /\ sqlQueue' = sqlQueue]_vars

\* the teardown has just happened with readings in the store, a refresh in
\* flight and the application in the foreground
C21_Witness ==
    /\ last = "Unmount" /\ ~mounted /\ appActive
    /\ CacheReadings # {} /\ tasks # << >>

\* C22: a reconnect re-enters connecting with an attempt identifier larger
\* than every earlier one, and while the current attempt is newer than the
\* one a signal belongs to, that signal (connect-success, disconnect or
\* transport-error) changes neither the session state nor its messages.
C22_StaleSignalsIgnored ==
    [][/\ RetryConnect => connectKey' > connectKey /\ connectionState' = "connecting"
       /\ (/\ SignalAttempt < connectKey
           /\ \/ OnConnected
              \/ OnDisconnected
              \/ \E message \in TransportErrors : OnError(message))
          => UNCHANGED <<connectionState, errorMessage, mediaErrorMessage>>]_vars

\* C23: the camera watchdog advisory, as the component's status and as the
\* media message shown, is present only while the camera is enabled and the
\* camera track is not live: it is not raised when the camera is disabled or
\* the track has become live within the grace period, and it is gone once
\* the track is live (the same track included) or the camera is disabled.
C23_WatchdogAdvisory ==
    (cameraStatusMessage = WatchdogText \/ mediaErrorMessage = WatchdogText)
        => isCameraEnabled /\ cameraTrack # "live"

\* the refreshes in flight: awaiting the fetch, or a statement of the store
RefreshesInFlight ==
    Len(tasks) + Cardinality({k \in 1..Len(sqlQueue) : sqlQueue[k].kind = "refresh"})

\* C24: whichever step of a refresh fails, the refresh ends without raising
\* to its caller (its promise does not reject) and with the loading flag
\* cleared.
C24_RefreshNeverRaises ==
    [][RefreshesInFlight' < RefreshesInFlight
          => /\ last' # "RefreshRejected"
             /\ mounted => ~metricsLoading']_vars

\* C25: at the start with readings in the store, the view shows the cached
\* readings while the first fetch is in flight, before the fetch result
\* replaces them.
C25_CacheShownFirst ==
    (/\ mounted /\ events = 0 /\ tasks # << >> /\ tasks[1].pc = "fetch"
     /\ CacheReadings # {})
        => Elems(metrics) = CacheReadings

\* C26: once every pending operation has completed (no refresh in flight, no
\* statement waiting, no effect due), the identities in the Cache Snapshot
\* are those of the most recent full write applied to the view and of the
\* incremental readings applied after it, on both backends.  Where no fetch
\* and no statement fails, these are the identities the view holds.
C26_CacheMatchesView ==
    (mounted /\ ~stale /\ tasks = << >> /\ sqlQueue = << >>)
        => {m.id : m \in CacheReadings} = Ids(metrics)

C28_RefreshesEnd == <>[](tasks = << >> /\ ~stale)

\* C29: the loading flag is TRUE exactly in the states in which a refresh is
\* in flight, also when two refreshes overlap and one of them has ended.
C29_LoadingIffInFlight ==
    mounted => (metricsLoading <=> RefreshesInFlight > 0)

\* C30: whenever the session is disconnected or in error, the Retry button
\* that starts a reconnect is on the screen, also after a disconnect and
\* after a transport error with an empty message.
C30_RetryAvailable ==
    connectionState \in {"disconnected", "error"} => RetryShown

====
